---- MODULE Spec2Model ----
(***************************************************************************)
(* Interprocedural taint analysis over MIR (src/analysis/taint_analysis.rs) *)
(* The transfer function, the summary cache (Contexts) and the forward     *)
(* fixpoint engine that drives them, as a state machine.                    *)
(***************************************************************************)
EXTENDS Integers, Sequences, FiniteSets, TLC

\* ------------------------------------------------------------------ bounds
\* Number of locals of a body (local 0 is the return place).
NumLocals == 3
\* Longest argument list of a call drawn for the transfer-function runs.
MaxArgs == 2
\* Most alias edges recorded in one function analysis of the transfer runs.
MaxRefs == 1
\* The analyses nested at one time are at most this many.
MaxDepth == 5

Locals == 0 .. (NumLocals - 1)
return_place == 0

\* ------------------------------------------------------------------ MIR
\* Operand::{Copy, Move, Constant}; Copy and Move carry a place.
Copy(l) == [k |-> "Copy", local |-> l]
Move(l) == [k |-> "Move", local |-> l]
Constant == [k |-> "Constant", local |-> 0]
IsPlace(op) == op.k \in {"Copy", "Move"}

\* Rvalue: the shape, and up to two operands (Ref keeps its place in a).
Rv(k, a, b) == [k |-> k, a |-> a, b |-> b]
Use(a) == Rv("Use", a, Constant)
UnaryOp(a) == Rv("UnaryOp", a, Constant)
BinaryOp(a, b) == Rv("BinaryOp", a, b)
CheckedBinaryOp(a, b) == Rv("CheckedBinaryOp", a, b)
Ref(p) == Rv("Ref", Copy(p), Constant)
UnmodeledRvalues ==
    {"Repeat", "ThreadLocalRef", "AddressOf", "Len", "Cast", "NullaryOp",
     "Discriminant", "Aggregate", "ShallowInitBox", "CopyForDeref"}
Unmodeled(k) == Rv(k, Constant, Constant)

\* Statement: an assignment place = rvalue, or another StatementKind.
Assign(place, rvalue) == [k |-> "Assign", place |-> place, rvalue |-> rvalue]
StorageLive(l) == [k |-> "StorageLive", place |-> l, rvalue |-> Unmodeled("Cast")]

\* Terminator.  func is the callee operand of a Call: a constant naming a
\* function, or a place (a call through a function pointer).
FnConst(id) == [k |-> "Constant", id |-> id]
FnPlace == [k |-> "Move", id |-> ""]
Term(k, func, args, destination, targets) ==
    [k |-> k, func |-> func, args |-> args, destination |-> destination,
     targets |-> targets]
Goto(t) == Term("Goto", FnPlace, <<>>, 0, <<t>>)
SwitchInt(ts) == Term("SwitchInt", FnPlace, <<>>, 0, ts)
Return == Term("Return", FnPlace, <<>>, 0, <<>>)
AssertT(t) == Term("Assert", FnPlace, <<>>, 0, <<t>>)
Unreachable == Term("Unreachable", FnPlace, <<>>, 0, <<>>)
Call(id, args, destination, targets) ==
    Term("Call", FnConst(id), args, destination, targets)
CallPtr(args, destination, targets) ==
    Term("Call", FnPlace, args, destination, targets)

Block(statements, terminator) ==
    [statements |-> statements, terminator |-> terminator]
Body(arg_count, blocks) == [arg_count |-> arg_count, blocks |-> blocks]

\* body.args_iter(): the formal parameters are locals 1 .. arg_count.
args_iter(body) == [i \in 1 .. body.arg_count |-> i]

\* ------------------------------------------------------------------ AttrInfo
\* AttrInfo::get_kind: the functions tagged as source, sanitizer or sink.
get_kind(id) ==
    CASE id = "SOURCE" -> "Source"
      [] id = "SANITIZE" -> "Sanitizer"
      [] id = "SINK" -> "Sink"
      [] OTHER -> "None"

\* ------------------------------------------------------------------ domain
\* PointsAwareTaintDomain { state: BitSet<Local>, map: PointsMap }.
Dom(state, map) == [state |-> state, map |-> map]
EmptyPoints == [l \in Locals |-> {}]

get_taint(dom, ix) == ix \in dom.state

RECURSIVE Reach(_, _, _)
Reach(map, frontier, seen) ==
    IF frontier = {} THEN seen
    ELSE LET nxt == (UNION {map[l] : l \in frontier}) \ seen
         IN  Reach(map, nxt, seen \cup nxt)

\* Everything ix may reference, transitively.
get_aliases(map, ix) == Reach(map, {ix}, {})

set_taint(dom, ix, value) ==
    LET hit == {ix} \cup get_aliases(dom.map, ix)
    IN  [dom EXCEPT !.state = IF value THEN @ \cup hit ELSE @ \ hit]

propagate(dom, old, new) == set_taint(dom, new, get_taint(dom, old))

add_ref(dom, v1, v2) == [dom EXCEPT !.map[v1] = @ \cup {v2}]

\* TaintDomain for the bare BitSet (entry sets, summaries).
bitset_get_taint(set, ix) == ix \in set
bitset_set_taint(set, ix, value) == IF value THEN set \cup {ix} ELSE set \ {ix}

\* ------------------------------------------------------------------ transfer
\* Rvalue::Use(Constant) | Rvalue::UnaryOp(_, Constant): the place is clean.
M_assign_constant_skipped(dom, place) == dom
assign_constant(dom, place) == set_taint(dom, place, FALSE)

\* Rvalue::Use(Copy(f) | Move(f)).
M_assign_use_weak(dom, f, place) ==
    IF get_taint(dom, f) THEN set_taint(dom, place, TRUE) ELSE dom
assign_use(dom, f, place) == propagate(dom, f, place)

\* Rvalue::BinaryOp | Rvalue::CheckedBinaryOp over the operand pair (a, b).
M_assign_binary_and(dom, place, a, b) ==
    CASE /\ a.k = "Constant"
         /\ b.k = "Constant" ->
            set_taint(dom, place, FALSE)
      [] /\ IsPlace(a)
         /\ IsPlace(b) ->
            IF get_taint(dom, a.local) /\ get_taint(dom, b.local)
            THEN set_taint(dom, place, TRUE)
            ELSE set_taint(dom, place, FALSE)
      [] /\ IsPlace(a)
         /\ b.k = "Constant" ->
            propagate(dom, a.local, place)
      [] OTHER ->
            propagate(dom, b.local, place)
assign_binary(dom, place, a, b) ==
    CASE /\ a.k = "Constant"
         /\ b.k = "Constant" ->
            set_taint(dom, place, FALSE)
      [] /\ IsPlace(a)
         /\ IsPlace(b) ->
            IF get_taint(dom, a.local) \/ get_taint(dom, b.local)
            THEN set_taint(dom, place, TRUE)
            ELSE set_taint(dom, place, FALSE)
      [] /\ IsPlace(a)
         /\ b.k = "Constant" ->
            propagate(dom, a.local, place)
      [] OTHER ->
            propagate(dom, b.local, place)

\* Rvalue::UnaryOp(_, Move(p) | Copy(p)).
assign_unary(dom, p, place) == propagate(dom, p, place)

\* Rvalue::Ref(_, _, p).
\* (a mutant: the edge recorded the other way round)
M_assign_ref_reversed(dom, place, p) == add_ref(dom, p, place)
assign_ref(dom, place, p) == add_ref(dom, place, p)

\* (a mutant: an unmodeled shape clears the destination)
M_t_visit_assign_unmodeled_kills(dom, place, rvalue) ==
    CASE /\ rvalue.k \in {"Use", "UnaryOp"}
         /\ rvalue.a.k = "Constant" ->
            assign_constant(dom, place)
      [] /\ rvalue.k = "Use"
         /\ IsPlace(rvalue.a) ->
            assign_use(dom, rvalue.a.local, place)
      [] rvalue.k \in {"BinaryOp", "CheckedBinaryOp"} ->
            assign_binary(dom, place, rvalue.a, rvalue.b)
      [] /\ rvalue.k = "UnaryOp"
         /\ IsPlace(rvalue.a) ->
            assign_unary(dom, rvalue.a.local, place)
      [] rvalue.k = "Ref" ->
            assign_ref(dom, place, rvalue.a.local)
      [] OTHER -> set_taint(dom, place, FALSE)

t_visit_assign(dom, place, rvalue) ==
    CASE /\ rvalue.k \in {"Use", "UnaryOp"}
         /\ rvalue.a.k = "Constant" ->
            assign_constant(dom, place)
      [] /\ rvalue.k = "Use"
         /\ IsPlace(rvalue.a) ->
            assign_use(dom, rvalue.a.local, place)
      [] rvalue.k \in {"BinaryOp", "CheckedBinaryOp"} ->
            assign_binary(dom, place, rvalue.a, rvalue.b)
      [] /\ rvalue.k = "UnaryOp"
         /\ IsPlace(rvalue.a) ->
            assign_unary(dom, rvalue.a.local, place)
      [] rvalue.k = "Ref" ->
            assign_ref(dom, place, rvalue.a.local)
      [] OTHER -> dom

visit_statement(dom, statement) ==
    IF statement.k = "Assign"
    THEN t_visit_assign(dom, statement.place, statement.rvalue)
    ELSE dom

t_visit_source_destination(dom, destination) == set_taint(dom, destination, TRUE)

M_sanitizer_as_source(dom, destination) == set_taint(dom, destination, TRUE)
t_visit_sanitizer_destination(dom, destination) == set_taint(dom, destination, FALSE)

\* Whether t_visit_sink emits its diagnostic.
M_t_visit_sink_first(dom, args) ==
    /\ Len(args) > 0
    /\ IsPlace(args[1])
    /\ get_taint(dom, args[1].local)
t_visit_sink(dom, args) ==
    \E i \in 1 .. Len(args) :
        IF IsPlace(args[i]) THEN get_taint(dom, args[i].local) ELSE FALSE

\* The diagnostic of t_visit_sink: the callee's name and the call's span,
\* the span being the function, key and block of the call.
Diagnostic(name, span) ==
    [msg |-> "received tainted input", name |-> name, span |-> span]

\* The InitSet t_fn_call_analysis builds from a call's arguments.
SomeTrue == "Some(true)"
SomeFalse == "Some(false)"
None == "None"
\* (a mutant: a literal argument entered as untainted)
M_InitOfArgs_const_untainted(dom, args) ==
    [i \in 1 .. Len(args) |->
        IF IsPlace(args[i]) /\ get_taint(dom, args[i].local) THEN SomeTrue ELSE SomeFalse]
InitOfArgs(dom, args) ==
    [i \in 1 .. Len(args) |->
        IF IsPlace(args[i])
        THEN (IF get_taint(dom, args[i].local) THEN SomeTrue ELSE SomeFalse)
        ELSE None]

\* Option<BitSet<Local>>: a summary, or none.
NoSummary == [some |-> FALSE, set |-> {}]
Summary(set) == [some |-> TRUE, set |-> set]

Min(a, b) == IF a < b THEN a ELSE b

\* The loop over arg_map: arguments zipped with the callee's formals, each
\* plain-variable argument overwritten with its formal's exit taint.
RECURSIVE M_WriteBackArgs_merge(_, _, _, _, _)
M_WriteBackArgs_merge(dom, args, formals, end_set, i) ==
    IF i > Min(Len(args), Len(formals)) THEN dom
    ELSE M_WriteBackArgs_merge(
            IF IsPlace(args[i]) /\ bitset_get_taint(end_set, formals[i])
            THEN set_taint(dom, args[i].local, TRUE)
            ELSE dom,
            args, formals, end_set, i + 1)
RECURSIVE WriteBackArgs(_, _, _, _, _)
WriteBackArgs(dom, args, formals, end_set, i) ==
    IF i > Min(Len(args), Len(formals)) THEN dom
    ELSE WriteBackArgs(
            IF IsPlace(args[i])
            THEN set_taint(dom, args[i].local, bitset_get_taint(end_set, formals[i]))
            ELSE dom,
            args, formals, end_set, i + 1)

\* t_fn_call_analysis once t_function_summary has returned end_state.
\* (a mutant: a call without a summary taints its destination)
M_t_fn_call_analysis_none_taints(dom, args, target_body, destination, end_state) ==
    IF end_state.some
    THEN LET d1 == IF bitset_get_taint(end_state.set, return_place)
                   THEN t_visit_source_destination(dom, destination)
                   ELSE dom
         IN  WriteBackArgs(d1, args, args_iter(target_body), end_state.set, 1)
    ELSE t_visit_source_destination(dom, destination)
t_fn_call_analysis(dom, args, target_body, destination, end_state) ==
    IF end_state.some
    THEN LET d1 == IF bitset_get_taint(end_state.set, return_place)
                   THEN t_visit_source_destination(dom, destination)
                   ELSE dom
         IN  WriteBackArgs(d1, args, args_iter(target_body), end_state.set, 1)
    ELSE dom

\* ------------------------------------------------------------------ engine
\* traversal::reverse_postorder: depth-first from the start block, the
\* successors of a terminator taken in order.  (A traversal that takes them
\* in the opposite order yields another reverse postorder; the bodies below
\* with one return block end in that block under both.)
START_BLOCK == 1

RECURSIVE Postorder(_, _, _), PostorderSuccessors(_, _, _, _)
Postorder(body, bb, acc) ==
    IF bb \in acc.visited THEN acc
    ELSE LET a0 == [acc EXCEPT !.visited = @ \cup {bb}]
             a1 == PostorderSuccessors(body, body.blocks[bb].terminator.targets, 1, a0)
         IN  [a1 EXCEPT !.order = Append(@, bb)]
PostorderSuccessors(body, succ, i, acc) ==
    IF i > Len(succ) THEN acc
    ELSE PostorderSuccessors(body, succ, i + 1, Postorder(body, succ[i], acc))

Reverse(s) == [i \in 1 .. Len(s) |-> s[Len(s) + 1 - i]]

reverse_postorder(body) ==
    Reverse(Postorder(body, START_BLOCK, [visited |-> {}, order |-> <<>>]).order)

InSeq(x, s) == \E i \in 1 .. Len(s) : s[i] = x

bottom_value == {}

\* initialize_start_block: the formals whose init entry is Some(true).
\* (a mutant: an entry of None taken as tainted)
M_initialize_start_block_unknown_tainted(init, body, state) ==
    IF init # <<>>
    THEN state \cup {args_iter(body)[i] :
                        i \in {j \in 1 .. Min(Len(init), body.arg_count) :
                                  init[j] \in {SomeTrue, None}}}
    ELSE state
M_initialize_start_block_none(init, body, state) == state
initialize_start_block(init, body, state) ==
    IF init # <<>>
    THEN state \cup {args_iter(body)[i] :
                        i \in {j \in 1 .. Min(Len(init), body.arg_count) :
                                  init[j] = SomeTrue}}
    ELSE state

\* TaintAnalysis::new_with_init, then the engine's construction: bottom
\* entry sets, the start block initialised, every reachable block dirty.
new_with_init(body, id, init) ==
    [id |-> id,
     init |-> init,
     entry_sets |-> [b \in 1 .. Len(body.blocks) |->
                        IF b = START_BLOCK
                        THEN initialize_start_block(init, body, bottom_value)
                        ELSE bottom_value],
     exit_sets |-> [b \in 1 .. Len(body.blocks) |-> bottom_value],
     dirty_queue |-> reverse_postorder(body),
     points |-> EmptyPoints,
     state |-> bottom_value,
     bb |-> 0,
     idx |-> 0,
     mode |-> "fixpoint"]

\* The engine joins a block's exit state into each successor's entry set and
\* marks the successor dirty when its entry set grew.
\* (a mutant: a successor whose entry set grew is not marked dirty)
RECURSIVE M_join_never_dirty(_, _, _)
M_join_never_dirty(fr, targets, i) ==
    IF i > Len(targets) THEN fr
    ELSE M_join_never_dirty(
            [fr EXCEPT !.entry_sets[targets[i]] = @ \cup fr.state], targets, i + 1)
RECURSIVE join_state_into_successors_of(_, _, _)
join_state_into_successors_of(fr, targets, i) ==
    IF i > Len(targets) THEN fr
    ELSE LET t == targets[i]
             joined == fr.entry_sets[t] \cup fr.state
             changed == joined # fr.entry_sets[t]
             q == IF changed /\ ~InSeq(t, fr.dirty_queue)
                  THEN Append(fr.dirty_queue, t)
                  ELSE fr.dirty_queue
         IN  join_state_into_successors_of(
                [fr EXCEPT !.entry_sets[t] = joined, !.dirty_queue = q],
                targets, i + 1)

\* The end of a block: during the fixpoint the exit state flows to the
\* successors (exit_sets keeps it as history); under the results cursor the
\* state at the block's end is kept.
EndBlock(fr, targets) ==
    IF fr.mode = "fixpoint"
    THEN [join_state_into_successors_of(fr, targets, 1) EXCEPT
            !.exit_sets[fr.bb] = fr.state, !.bb = 0, !.idx = 0]
    ELSE [fr EXCEPT !.mode = "finished", !.bb = 0, !.idx = 0]

DomOf(fr) == Dom(fr.state, fr.points)
WithDom(fr, dom) == [fr EXCEPT !.state = dom.state, !.points = dom.map]

IsUnclassifiedCall(term) ==
    /\ term.k = "Call"
    /\ term.func.k = "Constant"
    /\ get_kind(term.func.id) = "None"

IsSinkCall(term) ==
    /\ term.k = "Call"
    /\ term.func.k = "Constant"
    /\ get_kind(term.func.id) = "Sink"

\* t_visit_call for a classified callee (an unclassified one goes through
\* t_function_summary, below).
M_t_visit_call_no_source(dom, term) ==
    CASE get_kind(term.func.id) = "Sanitizer" ->
            t_visit_sanitizer_destination(dom, term.destination)
      [] OTHER -> dom
t_visit_call(dom, term) ==
    CASE get_kind(term.func.id) = "Source" ->
            t_visit_source_destination(dom, term.destination)
      [] get_kind(term.func.id) = "Sanitizer" ->
            t_visit_sanitizer_destination(dom, term.destination)
      [] OTHER -> dom

visit_terminator(dom, term) ==
    IF term.k = "Call" /\ term.func.k = "Constant"
    THEN t_visit_call(dom, term)
    ELSE dom

\* ------------------------------------------------------------------ state
VARIABLES
    prog,       \* the program under analysis: its bodies and the root
    stack,      \* the analyses in progress, the root first
    contexts,   \* Contexts: (DefId, InitSet) -> Option<BitSet<Local>>
    diags,      \* the diagnostics emitted so far
    fixpoints,  \* the entry sets of every converged fixpoint run, by key (history)
    last        \* the transfer step just taken (history)

vars == <<prog, stack, contexts, diags, fixpoints, last>>

\* The diagnostics a classified terminator emits.
M_EmittedBy_first_only(fr, dom, term) ==
    IF IsSinkCall(term) /\ t_visit_sink(dom, term.args) /\ diags = <<>>
    THEN <<Diagnostic(term.func.id, [fn |-> fr.id, init |-> fr.init, bb |-> fr.bb])>>
    ELSE <<>>
EmittedBy(fr, dom, term) ==
    IF IsSinkCall(term) /\ t_visit_sink(dom, term.args)
    THEN <<Diagnostic(term.func.id, [fn |-> fr.id, init |-> fr.init, bb |-> fr.bb])>>
    ELSE <<>>

Top == stack[Len(stack)]
BodyOf(id) == prog.fns[id]
CurBlock(fr) == BodyOf(fr.id).blocks[fr.bb]
SetTop(fr) == [stack EXCEPT ![Len(stack)] = fr]

Key(id, init) == <<id, init>>
\* (a mutant: an entry of None read as no entry at all)
M_get_cached_none_is_absent(ctx, key) ==
    IF key \in DOMAIN ctx /\ ctx[key].some THEN [some |-> TRUE, val |-> ctx[key]]
    ELSE [some |-> FALSE, val |-> NoSummary]
M_get_cached_any_init(ctx, key) ==
    IF \E k \in DOMAIN ctx : k[1] = key[1]
    THEN [some |-> TRUE, val |-> ctx[CHOOSE k \in DOMAIN ctx : k[1] = key[1]]]
    ELSE [some |-> FALSE, val |-> NoSummary]
t_get_cached_summary(ctx, key) ==
    IF key \in DOMAIN ctx THEN [some |-> TRUE, val |-> ctx[key]]
    ELSE [some |-> FALSE, val |-> NoSummary]
\* (a mutant: the None placeholder is not stored)
M_t_insert_summary_no_placeholder(ctx, key, val) ==
    IF val.some
    THEN [k \in DOMAIN ctx \cup {key} |-> IF k = key THEN val ELSE ctx[k]]
    ELSE ctx
t_insert_summary(ctx, key, val) ==
    [k \in DOMAIN ctx \cup {key} |-> IF k = key THEN val ELSE ctx[k]]

\* The converged entry sets of the run fr, added to those recorded under its
\* function and init.
RecordFixpoint(fp, fr) ==
    [k \in DOMAIN fp \cup {Key(fr.id, fr.init)} |->
        (IF k \in DOMAIN fp THEN fp[k] ELSE {})
        \cup (IF k = Key(fr.id, fr.init) THEN {fr.entry_sets} ELSE {})]

NoStatement == StorageLive(0)
Step(op, pre, statement, term, end_state, ndiag) ==
    [op |-> op, pre |-> pre, statement |-> statement, term |-> term,
     end_state |-> end_state, ndiag |-> ndiag]
NoStep == Step("init", Dom({}, EmptyPoints), NoStatement, Return, NoSummary, 0)

\* ------------------------------------------------------------------ programs
Program(fns, root) == [fns |-> fns, root |-> root]

ReturnBlock == Block(<<>>, Return)

\* Scenario A: x = SOURCE(); SINK(x);
ScenarioA ==
    Program([main |-> Body(0, <<
        Block(<<>>, Call("SOURCE", <<>>, 1, <<2>>)),
        Block(<<>>, Call("SINK", <<Move(1)>>, 2, <<3>>)),
        ReturnBlock >>)], "main")

\* Scenario B: x = SOURCE(); y = SANITIZE(x); SINK(y);
ScenarioB ==
    Program([main |-> Body(0, <<
        Block(<<>>, Call("SOURCE", <<>>, 1, <<2>>)),
        Block(<<>>, Call("SANITIZE", <<Move(1)>>, 2, <<3>>)),
        Block(<<>>, Call("SINK", <<Move(2)>>, 0, <<4>>)),
        ReturnBlock >>)], "main")

\* Scenario C: x = SOURCE(); y = x; SINK(y);
ScenarioC ==
    Program([main |-> Body(0, <<
        Block(<<>>, Call("SOURCE", <<>>, 1, <<2>>)),
        Block(<<Assign(2, Use(Move(1)))>>, Call("SINK", <<Move(2)>>, 0, <<3>>)),
        ReturnBlock >>)], "main")

\* Scenario D: x = 5; SINK(x);
ScenarioD ==
    Program([main |-> Body(0, <<
        Block(<<Assign(1, Use(Constant))>>, Call("SINK", <<Move(1)>>, 0, <<2>>)),
        ReturnBlock >>)], "main")

\* Scenario E: f(p) { SINK(p) }; x = SOURCE(); f(x);
ScenarioE ==
    Program([main |-> Body(0, <<
                Block(<<>>, Call("SOURCE", <<>>, 1, <<2>>)),
                Block(<<>>, Call("f", <<Move(1)>>, 0, <<3>>)),
                ReturnBlock >>),
             f |-> Body(1, <<
                Block(<<>>, Call("SINK", <<Move(1)>>, 0, <<2>>)),
                ReturnBlock >>)], "main")

\* Scenario E with a copy in the callee: f(p) { q = p; SINK(q) }.
ScenarioECopy ==
    Program([main |-> Body(0, <<
                Block(<<>>, Call("SOURCE", <<>>, 1, <<2>>)),
                Block(<<>>, Call("f", <<Move(1)>>, 0, <<3>>)),
                ReturnBlock >>),
             f |-> Body(1, <<
                Block(<<Assign(2, Use(Copy(1)))>>, Call("SINK", <<Move(2)>>, 0, <<2>>)),
                ReturnBlock >>)], "main")

\* Scenario F: g(n) { if n > 0 { g(n - 1) } else { SOURCE() } }; y = g(3); SINK(y);
ScenarioF ==
    Program([main |-> Body(0, <<
                Block(<<>>, Call("g", <<Constant>>, 1, <<2>>)),
                Block(<<>>, Call("SINK", <<Move(1)>>, 0, <<3>>)),
                ReturnBlock >>),
             g |-> Body(1, <<
                Block(<<Assign(2, BinaryOp(Copy(1), Constant))>>, SwitchInt(<<3, 2>>)),
                Block(<<Assign(2, CheckedBinaryOp(Copy(1), Constant))>>,
                      Call("g", <<Move(2)>>, 0, <<4>>)),
                Block(<<>>, Call("SOURCE", <<>>, 0, <<4>>)),
                ReturnBlock >>)], "main")

\* A loop that taints on its back edge: x = 5; while c { SINK(x); x = SOURCE(); }
LoopProgram ==
    Program([main |-> Body(0, <<
                Block(<<Assign(1, Use(Constant))>>, Goto(2)),
                Block(<<>>, SwitchInt(<<4, 3>>)),
                Block(<<>>, Call("SINK", <<Copy(1)>>, 0, <<5>>)),
                ReturnBlock,
                Block(<<>>, Call("SOURCE", <<>>, 1, <<2>>)) >>)], "main")

\* x = 5; x = f(copy x); SINK(x); with f(p) { SOURCE() }.
DestinationIsArgument ==
    Program([main |-> Body(0, <<
                Block(<<Assign(1, Use(Constant))>>, Call("f", <<Copy(1)>>, 1, <<2>>)),
                Block(<<>>, Call("SINK", <<Copy(1)>>, 0, <<3>>)),
                ReturnBlock >>),
             f |-> Body(1, <<
                Block(<<>>, Call("SOURCE", <<>>, 0, <<2>>)),
                ReturnBlock >>)], "main")

\* x = SOURCE(); f(copy x, copy x); SINK(x); with f(p, q) { p = 5; }.
SameArgumentTwice ==
    Program([main |-> Body(0, <<
                Block(<<>>, Call("SOURCE", <<>>, 1, <<2>>)),
                Block(<<>>, Call("f", <<Copy(1), Copy(1)>>, 0, <<3>>)),
                Block(<<>>, Call("SINK", <<Copy(1)>>, 0, <<4>>)),
                ReturnBlock >>),
             f |-> Body(2, <<
                Block(<<Assign(1, Use(Constant))>>, Return) >>)], "main")

\* A root that calls itself: main() { x = main(); SINK(x); SOURCE() }.
RootRecursion ==
    Program([main |-> Body(0, <<
                Block(<<>>, Call("main", <<>>, 1, <<2>>)),
                Block(<<>>, Call("SINK", <<Copy(1)>>, 2, <<3>>)),
                Block(<<>>, Call("SOURCE", <<>>, 0, <<4>>)),
                ReturnBlock >>)], "main")

\* A public function analysed as a root that calls itself with a literal,
\* a clean variable and a tainted one:
\* f(p) { f(5); f(p); x = SOURCE(); f(x); }.
PubRecursion ==
    Program([f |-> Body(1, <<
                Block(<<>>, Call("f", <<Constant>>, 0, <<2>>)),
                Block(<<>>, Call("f", <<Copy(1)>>, 0, <<3>>)),
                Block(<<>>, Call("SOURCE", <<>>, 2, <<4>>)),
                Block(<<>>, Call("f", <<Copy(2)>>, 0, <<5>>)),
                ReturnBlock >>)], "f")

\* A reference taken after the referring variable was overwritten:
\* x = SOURCE(); r = 5; r = &x; SINK(x).
RefAfterKill ==
    Program([main |-> Body(0, <<
                Block(<<>>, Call("SOURCE", <<>>, 1, <<2>>)),
                Block(<<Assign(2, Use(Constant)), Assign(2, Ref(1))>>, Goto(3)),
                Block(<<>>, Call("SINK", <<Copy(1)>>, 0, <<4>>)),
                ReturnBlock >>)], "main")

\* A recursive call inside a loop:
\* g(p, q) { while c { g(p, q); p = SOURCE(); } q = SANITIZE(q); }
\* called as y = SOURCE(); x = 5; g(x, y).
LoopRecursion ==
    Program([main |-> Body(0, <<
                Block(<<>>, Call("SOURCE", <<>>, 2, <<2>>)),
                Block(<<Assign(1, Use(Constant))>>,
                      Call("g", <<Copy(1), Copy(2)>>, 0, <<3>>)),
                ReturnBlock >>),
             g |-> Body(2, <<
                Block(<<>>, Goto(2)),
                Block(<<>>, SwitchInt(<<5, 3>>)),
                Block(<<>>, Call("g", <<Copy(1), Copy(2)>>, 0, <<4>>)),
                Block(<<>>, Call("SOURCE", <<>>, 1, <<2>>)),
                Block(<<>>, Call("SANITIZE", <<Copy(2)>>, 2, <<6>>)),
                ReturnBlock >>)], "main")

\* A chain of references written through, around a call of a function that
\* takes a reference of its own:
\* r = &x; s = &r; s = SOURCE(); s = 5; x = SOURCE(); s = x; f(5); SINK(x)
\* with f(p) { p = &q; p = SOURCE(); }  (s is local 0).
RefChain ==
    Program([main |-> Body(0, <<
                Block(<<Assign(2, Ref(1)), Assign(0, Ref(2))>>,
                      Call("SOURCE", <<>>, 0, <<2>>)),
                Block(<<Assign(0, Use(Constant))>>, Call("SOURCE", <<>>, 1, <<3>>)),
                Block(<<Assign(0, Use(Copy(1)))>>, Call("f", <<Constant>>, 0, <<4>>)),
                Block(<<>>, Call("SINK", <<Copy(1)>>, 0, <<5>>)),
                ReturnBlock >>),
             f |-> Body(1, <<
                Block(<<Assign(1, Ref(2))>>, Call("SOURCE", <<>>, 1, <<2>>)),
                ReturnBlock >>)], "main")

\* x = f(&mut x): r = &mut x; x = f(move r), f returning SOURCE().
RefProgram ==
    Program([main |-> Body(0, <<
                Block(<<Assign(1, Use(Constant)), Assign(2, Ref(1))>>,
                      Call("f", <<Move(2)>>, 1, <<2>>)),
                Block(<<>>, Call("SINK", <<Copy(1)>>, 0, <<3>>)),
                ReturnBlock >>),
             f |-> Body(1, <<
                Block(<<>>, Call("SOURCE", <<>>, 0, <<2>>)),
                ReturnBlock >>)], "main")

\* f(x, r) with r = &x: x = SOURCE(); r = &x; f(copy x, move r), f killing
\* its second parameter.
RefArgsProgram ==
    Program([main |-> Body(0, <<
                Block(<<>>, Call("SOURCE", <<>>, 1, <<2>>)),
                Block(<<Assign(2, Ref(1))>>,
                      Call("f", <<Copy(1), Move(2)>>, 0, <<3>>)),
                Block(<<>>, Call("SINK", <<Copy(1)>>, 0, <<4>>)),
                ReturnBlock >>),
             f |-> Body(2, <<
                Block(<<>>, Call("SANITIZE", <<Copy(2)>>, 2, <<2>>)),
                ReturnBlock >>)], "main")

\* Two functions calling each other: a(p) { b(p) }, b(p) { a(p); SINK(p) }.
MutualProgram ==
    Program([main |-> Body(0, <<
                Block(<<>>, Call("SOURCE", <<>>, 1, <<2>>)),
                Block(<<>>, Call("a", <<Copy(1)>>, 2, <<3>>)),
                ReturnBlock >>),
             a |-> Body(1, <<
                Block(<<>>, Call("b", <<Copy(1)>>, 0, <<2>>)),
                ReturnBlock >>),
             b |-> Body(1, <<
                Block(<<>>, Call("a", <<Copy(1)>>, 0, <<2>>)),
                Block(<<>>, Call("SINK", <<Copy(1)>>, 2, <<3>>)),
                ReturnBlock >>)], "main")

FixedPrograms ==
    {ScenarioA, ScenarioB, ScenarioC, ScenarioD, ScenarioE, ScenarioECopy,
     ScenarioF, LoopProgram, DestinationIsArgument, SameArgumentTwice,
     RootRecursion, PubRecursion, RefAfterKill, LoopRecursion, RefChain,
     RefProgram, RefArgsProgram, MutualProgram}

\* The callees of the call family, each of two parameters.
\* f(p, q) { SOURCE() }
CalleeReturnsSource ==
    Body(2, << Block(<<>>, Call("SOURCE", <<>>, 0, <<2>>)), ReturnBlock >>)
\* f(p, q) { p = 5; q }
CalleeKillsFirst ==
    Body(2, << Block(<<Assign(1, Use(Constant)), Assign(0, Use(Copy(2)))>>, Return) >>)
\* f(p, q) { q = SOURCE(); }
CalleeTaintsSecond ==
    Body(2, << Block(<<>>, Call("SOURCE", <<>>, 2, <<2>>)), ReturnBlock >>)
\* f(p, q) { SINK(p) }
CalleeSinksFirst ==
    Body(2, << Block(<<>>, Call("SINK", <<Move(1)>>, 0, <<2>>)), ReturnBlock >>)
\* f(p, q) { p }
CalleeReturnsFirst ==
    Body(2, << Block(<<Assign(0, Use(Copy(1)))>>, Return) >>)
\* f(p, q) { g(p, 5) }
CalleeCallsG ==
    Body(2, << Block(<<>>, Call("g", <<Copy(1), Constant>>, 0, <<2>>)), ReturnBlock >>)
\* f(p, q) { if c { p = SOURCE() } else { q = SANITIZE(q) } }
CalleeBranches ==
    Body(2, << Block(<<>>, SwitchInt(<<2, 3>>)),
               Block(<<>>, Call("SOURCE", <<>>, 1, <<4>>)),
               Block(<<>>, Call("SANITIZE", <<Copy(2)>>, 2, <<4>>)),
               ReturnBlock >>)
\* f(p, q) { q = SANITIZE(q); p }
CalleeSanitizesSecond ==
    Body(2, << Block(<<>>, Call("SANITIZE", <<Copy(2)>>, 2, <<2>>)),
               Block(<<Assign(0, Use(Copy(1)))>>, Return) >>)
Callees ==
    {CalleeReturnsSource, CalleeKillsFirst, CalleeTaintsSecond, CalleeSinksFirst,
     CalleeReturnsFirst, CalleeCallsG, CalleeBranches, CalleeSanitizesSecond}

\* g(p, q) { q = p | q; p = 5; q }
CalleeG ==
    Body(2, << Block(<<Assign(2, BinaryOp(Copy(1), Copy(2))),
                       Assign(1, Use(Constant)),
                       Assign(0, Use(Copy(2)))>>, Return) >>)

\* The call family: x and y each from SOURCE() or a constant, then
\* d = f(a1, a2); f(a2, a1) or f(a1, a2) again; SINK(x, y).
KillUnless(tainted, l) == IF tainted THEN <<>> ELSE <<Assign(l, Use(Constant))>>
CallFamilyMain(t1, t2, args, destination, swap) ==
    Body(0, <<
        Block(<<>>, Call("SOURCE", <<>>, 1, <<2>>)),
        Block(<<>>, Call("SOURCE", <<>>, 2, <<3>>)),
        Block(KillUnless(t1, 1) \o KillUnless(t2, 2),
              Call("f", args, destination, <<4>>)),
        Block(<<>>, Call("f", IF swap THEN Reverse(args) ELSE args, 0, <<5>>)),
        Block(<<>>, Call("SINK", <<Copy(1), Copy(2)>>, 0, <<6>>)),
        ReturnBlock >>)

CallFamilyOperands == {Constant, Copy(1), Copy(2)}
CallFamily ==
    {Program([main |-> CallFamilyMain(t1, t2, <<a1, a2>>, d, swap), f |-> f, g |-> CalleeG],
             "main") :
        t1 \in BOOLEAN, t2 \in BOOLEAN, a1 \in CallFamilyOperands,
        a2 \in CallFamilyOperands, d \in 0 .. 2, swap \in BOOLEAN, f \in Callees}

Programs == FixedPrograms \cup CallFamily

\* ------------------------------------------------------------------ actions
Init ==
    /\ prog \in Programs
    /\ stack = <<new_with_init(prog.fns[prog.root], prog.root, <<>>)>>
    /\ contexts = <<>>
    /\ diags = <<>>
    /\ fixpoints = <<>>
    /\ last = NoStep

\* The engine pops a dirty block and starts from its entry set.
NextBlock ==
    /\ Top.mode = "fixpoint"
    /\ Top.bb = 0
    /\ Top.dirty_queue # <<>>
    /\ stack' = SetTop([Top EXCEPT !.bb = Head(Top.dirty_queue),
                                   !.dirty_queue = Tail(Top.dirty_queue),
                                   !.state = Top.entry_sets[Head(Top.dirty_queue)],
                                   !.idx = 1])
    /\ last' = Step("block", DomOf(Top), NoStatement, Return, NoSummary, 0)
    /\ UNCHANGED <<prog, contexts, diags, fixpoints>>

\* apply_statement_effect on the next statement of the block.
Statement ==
    /\ Top.bb # 0
    /\ Top.idx <= Len(CurBlock(Top).statements)
    /\ LET st == CurBlock(Top).statements[Top.idx]
           dom == visit_statement(DomOf(Top), st)
       IN  /\ stack' = SetTop([WithDom(Top, dom) EXCEPT !.idx = @ + 1])
           /\ last' = Step("statement", DomOf(Top), st, Return, NoSummary, 0)
    /\ UNCHANGED <<prog, contexts, diags, fixpoints>>

\* apply_terminator_effect on a terminator that needs no summary.
Terminator ==
    /\ Top.bb # 0
    /\ Top.idx = Len(CurBlock(Top).statements) + 1
    /\ LET term == CurBlock(Top).terminator
           dom == visit_terminator(DomOf(Top), term)
           emitted == EmittedBy(Top, DomOf(Top), term)
       IN  /\ ~IsUnclassifiedCall(term)
           /\ stack' = SetTop(EndBlock(WithDom(Top, dom), term.targets))
           /\ diags' = diags \o emitted
           /\ last' = Step("terminator", DomOf(Top), NoStatement, term, NoSummary,
                           Len(emitted))
    /\ UNCHANGED <<prog, contexts, fixpoints>>

\* A call of an unclassified function whose key is in the cache: the entry,
\* a summary or none, is what t_function_summary returns.
CallCached ==
    /\ Top.bb # 0
    /\ Top.idx = Len(CurBlock(Top).statements) + 1
    /\ LET term == CurBlock(Top).terminator
           key == Key(term.func.id, InitOfArgs(DomOf(Top), term.args))
           hit == t_get_cached_summary(contexts, key)
           dom == t_fn_call_analysis(DomOf(Top), term.args, BodyOf(term.func.id),
                                     term.destination, hit.val)
       IN  /\ IsUnclassifiedCall(term)
           /\ hit.some
           /\ stack' = SetTop(EndBlock(WithDom(Top, dom), term.targets))
           /\ last' = Step("call_cached", DomOf(Top), NoStatement, term, hit.val, 0)
    /\ UNCHANGED <<prog, contexts, diags, fixpoints>>

\* A call of an unclassified function whose key is absent: None is inserted
\* under the key and a nested analysis of the callee starts.
CallEnter ==
    /\ Top.bb # 0
    /\ Top.idx = Len(CurBlock(Top).statements) + 1
    /\ LET term == CurBlock(Top).terminator
           init == InitOfArgs(DomOf(Top), term.args)
           key == Key(term.func.id, init)
       IN  /\ IsUnclassifiedCall(term)
           /\ ~t_get_cached_summary(contexts, key).some
           /\ Len(stack) < MaxDepth
           /\ contexts' = t_insert_summary(contexts, key, NoSummary)
           /\ stack' = Append(stack, new_with_init(BodyOf(term.func.id),
                                                   term.func.id, init))
           /\ last' = Step("call_enter", DomOf(Top), NoStatement, term, NoSummary, 0)
    /\ UNCHANGED <<prog, diags, fixpoints>>

\* The nested fixpoint has converged: the results cursor seeks to the end of
\* the last block in reverse postorder, applying that block's effects again.
SeekToBlockEnd ==
    /\ Len(stack) > 1
    /\ Top.mode = "fixpoint"
    /\ Top.bb = 0
    /\ Top.dirty_queue = <<>>
    /\ LET rpo == reverse_postorder(BodyOf(Top.id))
           lastbb == rpo[Len(rpo)]
       IN  stack' = SetTop([Top EXCEPT !.mode = "cursor",
                                       !.bb = lastbb,
                                       !.state = Top.entry_sets[lastbb],
                                       !.idx = 1])
    /\ fixpoints' = RecordFixpoint(fixpoints, Top)
    /\ last' = Step("seek", DomOf(Top), NoStatement, Return, NoSummary, 0)
    /\ UNCHANGED <<prog, contexts, diags>>

\* t_function_summary returns: the summary replaces None in the cache and
\* the caller's t_fn_call_analysis applies it and ends the caller's block.
CallReturn ==
    /\ Len(stack) > 1
    /\ Top.mode = "finished"
    /\ LET caller == stack[Len(stack) - 1]
           term == CurBlock(caller).terminator
           state == Summary(Top.state)
           dom == t_fn_call_analysis(DomOf(caller), term.args, BodyOf(Top.id),
                                     term.destination, state)
       IN  /\ contexts' = t_insert_summary(contexts, Key(Top.id, Top.init), state)
           /\ stack' = [SubSeq(stack, 1, Len(stack) - 1) EXCEPT
                           ![Len(stack) - 1] = EndBlock(WithDom(caller, dom), term.targets)]
           /\ last' = Step("call_return", DomOf(caller), NoStatement, term, state, 0)
    /\ UNCHANGED <<prog, diags, fixpoints>>

\* The root's fixpoint has converged: eval_main returns.
RootDone ==
    /\ Len(stack) = 1
    /\ Top.mode = "fixpoint"
    /\ Top.bb = 0
    /\ Top.dirty_queue = <<>>
    /\ stack' = SetTop([Top EXCEPT !.mode = "finished"])
    /\ fixpoints' = RecordFixpoint(fixpoints, Top)
    /\ last' = Step("done", DomOf(Top), NoStatement, Return, NoSummary, 0)
    /\ UNCHANGED <<prog, contexts, diags>>

\* after_analysis once mir_analysis has returned: abort_if_errors ends the
\* process in failure when an error was emitted, Compilation::Stop otherwise.
AfterAnalysis ==
    /\ Len(stack) = 1
    /\ Top.mode = "finished"
    /\ stack' = SetTop([Top EXCEPT !.mode = IF diags # <<>> THEN "aborted" ELSE "stopped"])
    /\ last' = Step("after_analysis", DomOf(Top), NoStatement, Return, NoSummary, 0)
    /\ UNCHANGED <<prog, contexts, diags, fixpoints>>

Next ==
    \/ NextBlock
    \/ Statement
    \/ Terminator
    \/ CallCached
    \/ CallEnter
    \/ SeekToBlockEnd
    \/ CallReturn
    \/ RootDone
    \/ AfterAnalysis

Spec == Init /\ [][Next]_vars

Finished == Len(stack) = 1 /\ Top.mode = "finished"
Exited == Len(stack) = 1 /\ Top.mode \in {"aborted", "stopped"}
Failed == Len(stack) = 1 /\ Top.mode = "aborted"

\* ------------------------------------------------------------------ re-analysis
\* The summary of a callee analysed from scratch, with no cache: every
\* unclassified call inside it is analysed from scratch in turn.  Defined for
\* callees that reach no recursion.
RECURSIVE FreshSummary(_, _, _), FreshBlock(_, _, _, _), FreshFixpoint(_, _)

RECURSIVE FreshStatements(_, _, _)
FreshStatements(dom, statements, i) ==
    IF i > Len(statements) THEN dom
    ELSE FreshStatements(visit_statement(dom, statements[i]), statements, i + 1)

FreshBlock(p, id, dom, bb) ==
    LET blk == p.fns[id].blocks[bb]
        term == blk.terminator
        d == FreshStatements(dom, blk.statements, 1)
    IN  IF IsUnclassifiedCall(term)
        THEN t_fn_call_analysis(d, term.args, p.fns[term.func.id], term.destination,
                 Summary(FreshSummary(p, term.func.id, InitOfArgs(d, term.args))))
        ELSE visit_terminator(d, term)

FreshFixpoint(p, fr) ==
    IF fr.dirty_queue = <<>> THEN fr
    ELSE LET bb == Head(fr.dirty_queue)
             d == FreshBlock(p, fr.id, Dom(fr.entry_sets[bb], fr.points), bb)
             fr1 == [fr EXCEPT !.dirty_queue = Tail(fr.dirty_queue),
                               !.state = d.state, !.points = d.map]
         IN  FreshFixpoint(p, join_state_into_successors_of(
                                 fr1, p.fns[fr.id].blocks[bb].terminator.targets, 1))

FreshSummary(p, id, init) ==
    LET fr == FreshFixpoint(p, new_with_init(p.fns[id], id, init))
        rpo == reverse_postorder(p.fns[id])
        lastbb == rpo[Len(rpo)]
    IN  FreshBlock(p, id, Dom(fr.entry_sets[lastbb], fr.points), lastbb).state

\* The unclassified functions a body calls, and the call graph's closure.
CalleesOf(body) ==
    {body.blocks[b].terminator.func.id :
        b \in {c \in 1 .. Len(body.blocks) : IsUnclassifiedCall(body.blocks[c].terminator)}}

RECURSIVE ReachFns(_, _, _)
ReachFns(p, frontier, seen) ==
    IF frontier = {} THEN seen
    ELSE LET nxt == (UNION {CalleesOf(p.fns[h]) : h \in frontier}) \ seen
         IN  ReachFns(p, nxt, seen \cup nxt)
CalledFrom(p, id) == ReachFns(p, {id}, {})

\* id is not recursive and calls nothing that is.
NonRecursive(p, id) == \A h \in {id} \cup CalledFrom(p, id) : h \notin CalledFrom(p, h)

\* ------------------------------------------------------------------ transfer runs
\* The transfer function on its own: one analysis applies statements and
\* summary-free terminators of every shape, in any order, to its domain.
OperandsT == {Constant} \cup {Copy(l) : l \in Locals} \cup {Move(l) : l \in Locals}

RvaluesT ==
    {Use(a) : a \in OperandsT} \cup {UnaryOp(a) : a \in OperandsT}
    \cup {BinaryOp(a, b) : a \in OperandsT, b \in OperandsT}
    \cup {CheckedBinaryOp(a, b) : a \in OperandsT, b \in OperandsT}
    \cup {Ref(p) : p \in Locals}
    \cup {Unmodeled(k) : k \in UnmodeledRvalues}

StatementsT ==
    {Assign(p, rv) : p \in Locals, rv \in RvaluesT} \cup {StorageLive(l) : l \in Locals}

\* Argument lists: a place is moved at most once, and not into the
\* destination (the MIR validator's rule for Call).
MovedOnce(args, destination) ==
    /\ \A i, j \in 1 .. Len(args) :
          (i # j /\ args[i].k = "Move") => ~(IsPlace(args[j]) /\ args[j].local = args[i].local)
    /\ \A i \in 1 .. Len(args) : args[i].k = "Move" => args[i].local # destination

ArgsT == UNION {[1 .. n -> OperandsT] : n \in 0 .. MaxArgs}
ShortArgsT == {args \in ArgsT : Len(args) <= 1}

\* Source, sanitizer and indirect calls never read their arguments; a sink
\* call never reads its destination.
TerminatorsT ==
    {Goto(1), SwitchInt(<<1, 1>>), Return, AssertT(1), Unreachable}
    \cup {CallPtr(args, d, <<1>>) : args \in ShortArgsT, d \in Locals}
    \cup {Call(id, args, d, <<1>>) :
            id \in {"SOURCE", "SANITIZE"}, args \in ShortArgsT, d \in Locals}
    \cup {Call("SINK", args, 0, <<1>>) : args \in ArgsT}

NumRefs(map) == Cardinality({ab \in Locals \X Locals : ab[2] \in map[ab[1]]})
PointsMapsT == {m \in [Locals -> SUBSET Locals] : NumRefs(m) <= MaxRefs}

TransferProgram == Program([main |-> Body(0, <<ReturnBlock>>)], "main")

\* The analysis is at some point of a block, with any taint state and any
\* alias map of at most MaxRefs edges that earlier statements left behind.
InitT ==
    /\ prog = TransferProgram
    /\ \E state \in SUBSET Locals, map \in PointsMapsT :
          stack = <<[new_with_init(prog.fns["main"], "main", <<>>) EXCEPT
                        !.dirty_queue = <<>>, !.bb = 1, !.idx = 1,
                        !.state = state, !.points = map]>>
    /\ contexts = <<>>
    /\ diags = <<>>
    /\ fixpoints = <<>>
    /\ last = NoStep

StatementT ==
    /\ Top.idx = 1
    /\ \E st \in StatementsT :
        LET dom == visit_statement(DomOf(Top), st)
        IN  /\ stack' = SetTop([WithDom(Top, dom) EXCEPT !.idx = 2])
            /\ last' = Step("statement", DomOf(Top), st, Return, NoSummary, 0)
            /\ UNCHANGED <<prog, contexts, diags, fixpoints>>

TerminatorT ==
    /\ Top.idx = 1
    /\ \E term \in TerminatorsT :
        LET dom == visit_terminator(DomOf(Top), term)
            emitted == EmittedBy(Top, DomOf(Top), term)
        IN  /\ MovedOnce(term.args, term.destination)
            /\ stack' = SetTop([WithDom(Top, dom) EXCEPT !.idx = 2])
            /\ diags' = diags \o emitted
            /\ last' = Step("terminator", DomOf(Top), NoStatement, term, NoSummary,
                            Len(emitted))
            /\ UNCHANGED <<prog, contexts, fixpoints>>

NextT == StatementT \/ TerminatorT

TransferSpec == InitT /\ [][NextT]_vars

\* ------------------------------------------------------------------ claims
\* The step just taken was a statement / a terminator of the top analysis.
WasAssign == last.op = "statement" /\ last.statement.k = "Assign"
WasCallOf(kind) ==
    /\ last.op = "terminator"
    /\ last.term.k = "Call"
    /\ last.term.func.k = "Constant"
    /\ get_kind(last.term.func.id) = kind
TaintedBefore(l) == l \in last.pre.state
TaintedAfter(l) == l \in Top.state

\* An argument that is a plain variable was tainted at the call.
SomePlaceArgTainted ==
    \E i \in 1 .. Len(last.term.args) :
        /\ last.term.args[i].k # "Constant"
        /\ TaintedBefore(last.term.args[i].local)

\* C1: a call to a sink emits a diagnostic exactly when one of its
\* plain-variable arguments is tainted at the call; with only literals and
\* untainted variables it emits nothing.  The diagnostic names the callee.
C1_SinkEmitsIffPlaceArgTainted ==
    WasCallOf("Sink") =>
        /\ SomePlaceArgTainted => (last.ndiag = 1 /\ Len(diags) >= 1)
        /\ ~SomePlaceArgTainted => last.ndiag = 0
        /\ last.ndiag = 1 => diags[Len(diags)].name = last.term.func.id

\* C1 witness: a sink call with a literal, and a tainted variable behind it,
\* has emitted its diagnostic.
C1_Witness ==
    /\ WasCallOf("Sink")
    /\ Len(last.term.args) = 2
    /\ last.term.args[1].k = "Constant"
    /\ SomePlaceArgTainted
    /\ Len(diags) = 1

IsConstantRvalue(rv) ==
    \/ rv.k \in {"Use", "UnaryOp"} /\ rv.a.k = "Constant"
    \/ rv.k \in {"BinaryOp", "CheckedBinaryOp"} /\ rv.a.k = "Constant" /\ rv.b.k = "Constant"

\* C4: after an assignment of a constant, of a unary-op over a constant or
\* of a binary-op over two constants, the destination is untainted, whatever
\* it was before.
C4_ConstantAssignKills ==
    (WasAssign /\ IsConstantRvalue(last.statement.rvalue)) =>
        ~TaintedAfter(last.statement.place)

\* C4 witness: a tainted destination was assigned a constant.
C4_Witness ==
    /\ WasAssign
    /\ last.statement.rvalue = Use(Constant)
    /\ TaintedBefore(last.statement.place)
    /\ ~TaintedAfter(last.statement.place)

IsCopyRvalue(rv) == rv.k \in {"Use", "UnaryOp"} /\ rv.a.k # "Constant"

\* C5: after y = x (copy, move, or unary-op over a variable) the taint of y
\* is the taint x had before the statement.
C5_CopyPropagates ==
    (WasAssign /\ IsCopyRvalue(last.statement.rvalue)) =>
        (TaintedAfter(last.statement.place)
            <=> TaintedBefore(last.statement.rvalue.a.local))

\* C5 witness: y was tainted, x was not, and y = x has been applied.
C5_Witness ==
    /\ WasAssign
    /\ last.statement.rvalue.k = "Use"
    /\ last.statement.rvalue.a.k = "Move"
    /\ TaintedBefore(last.statement.place)
    /\ ~TaintedBefore(last.statement.rvalue.a.local)

IsBinaryRvalue(rv) == rv.k \in {"BinaryOp", "CheckedBinaryOp"}

\* C6: after dst = a op b over two variables, dst is tainted iff a or b was
\* tainted before; over one variable and one constant, dst has the taint the
\* variable had before.
C6_BinaryOpOr ==
    (WasAssign /\ IsBinaryRvalue(last.statement.rvalue)) =>
        LET a == last.statement.rvalue.a
            b == last.statement.rvalue.b
            dst == last.statement.place
        IN  /\ (a.k # "Constant" /\ b.k # "Constant") =>
                 (TaintedAfter(dst) <=> (TaintedBefore(a.local) \/ TaintedBefore(b.local)))
            /\ (a.k # "Constant" /\ b.k = "Constant") =>
                 (TaintedAfter(dst) <=> TaintedBefore(a.local))
            /\ (a.k = "Constant" /\ b.k # "Constant") =>
                 (TaintedAfter(dst) <=> TaintedBefore(b.local))

\* C6 witness: a binary-op over two variables of which only the second was
\* tainted has tainted a clean destination.
C6_Witness ==
    /\ WasAssign
    /\ last.statement.rvalue.k = "BinaryOp"
    /\ last.statement.rvalue.a.k # "Constant"
    /\ last.statement.rvalue.b.k # "Constant"
    /\ ~TaintedBefore(last.statement.rvalue.a.local)
    /\ TaintedBefore(last.statement.rvalue.b.local)
    /\ ~TaintedBefore(last.statement.place)
    /\ TaintedAfter(last.statement.place)

\* C7: a call to a source leaves the destination tainted and a call to a
\* sanitizer leaves it untainted, whatever the destination and the arguments
\* were before.
C7_SourceTaintsSanitizerCleans ==
    /\ WasCallOf("Source") => TaintedAfter(last.term.destination)
    /\ WasCallOf("Sanitizer") => ~TaintedAfter(last.term.destination)

\* C7 witness: a sanitizer was called on a tainted argument into a tainted
\* destination.
C7_Witness ==
    /\ WasCallOf("Sanitizer")
    /\ Len(last.term.args) = 1
    /\ SomePlaceArgTainted
    /\ TaintedBefore(last.term.destination)
    /\ last.term.args[1].local # last.term.destination

\* The step just taken applied a callee's summary at a call site: the summary
\* came from the cache, or from the nested analysis that has just returned.
WasSummaryCall == last.op \in {"call_cached", "call_return"} /\ last.end_state.some
NumFormalArgs ==
    Min(Len(last.term.args), BodyOf(last.term.func.id).arg_count)

\* The diagnostics emitted inside the analysis of id for init.
DiagsIn(id, init) ==
    {i \in 1 .. Len(diags) : diags[i].span.fn = id /\ diags[i].span.init = init}

\* C2: a loop-free root emits exactly one diagnostic for SINK(x) after
\* x = SOURCE() (scenario A) and for SINK(y) after x = SOURCE(); y = x
\* (scenario C), at the sink call; it emits none for SINK(y) after
\* y = SANITIZE(x) (scenario B) nor for SINK(x) after x = 5 (scenario D).
C2_ScenariosABCD ==
    Finished =>
        /\ prog \in {ScenarioA, ScenarioC} =>
              /\ Len(diags) = 1
              /\ diags[1].name = "SINK"
              /\ diags[1].span.fn = "main"
              /\ diags[1].span.bb = 2
        /\ prog \in {ScenarioB, ScenarioD} => diags = <<>>

\* C2 witness: scenario C has run to its end with its diagnostic.
C2_Witness == Finished /\ prog = ScenarioC /\ Len(diags) = 1

\* f hands its first parameter, or a copy of it, to a sink and does nothing else.
SinksFirstParameter(p) ==
    /\ "f" \in DOMAIN p.fns
    /\ \/ p.fns["f"] = CalleeSinksFirst
       \/ p.fns["f"] = ScenarioE.fns["f"]
       \/ p.fns["f"] = ScenarioECopy.fns["f"]

\* C3: when f passes its parameter p to a sink, the nested computation of
\* f's summary for an init in which p is tainted emits exactly one
\* diagnostic, at the sink call inside f; for an init in which p is not
\* tainted it emits none.  In scenario E that diagnostic is the only one.
C3_ParameterTaintReachesSinkInCallee ==
    /\ SinksFirstParameter(prog) =>
          \A key \in DOMAIN contexts :
              (key[1] = "f" /\ contexts[key].some) =>
                  /\ Cardinality(DiagsIn("f", key[2])) =
                        (IF key[2][1] = SomeTrue THEN 1 ELSE 0)
                  /\ \A i \in DiagsIn("f", key[2]) : diags[i].name = "SINK"
    /\ (Finished /\ prog = ScenarioE) =>
          /\ Len(diags) = 1
          /\ DiagsIn("f", <<SomeTrue>>) = {1}

\* C3 witness: scenario E has run to its end, the summary of f for the
\* tainted parameter is in the cache and the diagnostic was emitted in f.
C3_Witness ==
    /\ Finished
    /\ prog = ScenarioE
    /\ Key("f", <<SomeTrue>>) \in DOMAIN contexts
    /\ DiagsIn("f", <<SomeTrue>>) # {}

\* C8: after a call of an unclassified function whose summary has the return
\* place tainted, the call's destination is tainted in the caller.
C8_ReturnTaintReachesDestination ==
    (WasSummaryCall /\ return_place \in last.end_state.set) =>
        TaintedAfter(last.term.destination)

\* C9 as claimed: after a call of an unclassified function with a summary,
\* every plain-variable argument has the exit taint of its formal.
C9_EveryArgumentHasFormalExitTaint ==
    WasSummaryCall =>
        \A i \in 1 .. NumFormalArgs :
            IsPlace(last.term.args[i]) =>
                (TaintedAfter(last.term.args[i].local) <=> i \in last.end_state.set)

\* Argument i's variable is written by no later argument's write-back: no
\* later argument is the same variable or a variable that may reference it.
NotWrittenLater(i) ==
    \A j \in (i + 1) .. NumFormalArgs :
        IsPlace(last.term.args[j]) =>
            last.term.args[i].local \notin
                {last.term.args[j].local}
                    \cup get_aliases(last.pre.map, last.term.args[j].local)

\* C9 amended: after a call of an unclassified function with a summary, every
\* plain-variable argument that no later argument's write-back writes again
\* has the exit taint of its formal (an overwrite, not a merge).
C9_LastWrittenArgumentHasFormalExitTaint ==
    WasSummaryCall =>
        \A i \in 1 .. NumFormalArgs :
            (IsPlace(last.term.args[i]) /\ NotWrittenLater(i)) =>
                (TaintedAfter(last.term.args[i].local) <=> i \in last.end_state.set)

\* C9 witness: a tainted caller variable, passed first and again second, has
\* become untainted because the second formal is untainted at the exit.
C9_Witness ==
    /\ WasSummaryCall
    /\ NumFormalArgs = 2
    /\ IsPlace(last.term.args[1])
    /\ last.term.args[2] = last.term.args[1]
    /\ TaintedBefore(last.term.args[2].local)
    /\ 2 \notin last.end_state.set
    /\ ~TaintedAfter(last.term.args[2].local)

\* C10: for a callee that reaches no recursion, the caller state after the
\* call is the one the call would leave had the callee been analysed from
\* scratch at this call site, whether the summary came from the cache or
\* from the nested analysis that filled it.
C10_CacheTransparent ==
    (WasSummaryCall /\ NonRecursive(prog, last.term.func.id)) =>
        DomOf(Top) =
            t_fn_call_analysis(
                last.pre, last.term.args, BodyOf(last.term.func.id),
                last.term.destination,
                Summary(FreshSummary(prog, last.term.func.id,
                                     InitOfArgs(last.pre, last.term.args))))

\* C10 witness: a summary with taint in it was taken from the cache for a
\* second call of a non-recursive callee, under a second key.
C10_Witness ==
    /\ last.op = "call_cached"
    /\ last.end_state.some
    /\ last.end_state.set # {}
    /\ NonRecursive(prog, last.term.func.id)
    /\ Cardinality(DOMAIN contexts) >= 2

\* ------------------------------------------------------------------ termination
\* The analysis is synchronous: eval_main runs the engine to its end, and
\* every step that can be taken is taken.
FairSpec == Init /\ [][Next]_vars /\ WF_vars(Next)

\* Some function of the program can reach a call of itself.
HasRecursion(p) == \E h \in DOMAIN p.fns : h \in CalledFrom(p, h)

\* C11: a top-level run terminates, recursive programs included: every
\* nested summary computation returns (the stack shrinks back to the root)
\* and the root's fixpoint run completes.
C11_RunTerminates == <>Finished

\* C11 witness: the run of a recursive program has finished, a summary for
\* a function on a call cycle having been computed.
C11_Witness ==
    /\ Finished
    /\ HasRecursion(prog)
    /\ \E key \in DOMAIN contexts :
          key[1] \in CalledFrom(prog, key[1]) /\ contexts[key].some

\* ------------------------------------------------------------------ determinism
\* The fixpoint of the analysis on top of the stack has just converged.
JustConverged == last.op \in {"seek", "done"}

\* The entry sets of a run of id under init made from scratch, without a cache.
FreshEntrySets(p, id, init) ==
    FreshFixpoint(p, new_with_init(p.fns[id], id, init)).entry_sets

\* C12 as stated: all fixpoint runs over one body with one init end with the
\* same state for every block.
C12_SameBodySameInitSameStates ==
    \A k \in DOMAIN fixpoints : Cardinality(fixpoints[k]) = 1

\* C12 amended: a fixpoint run over a body that reaches no recursion ends,
\* for every block, with the states of a second run over the same body and
\* init made from scratch, whatever the cache held during the first.
C12_NonRecursiveRunsAgree ==
    (JustConverged /\ NonRecursive(prog, Top.id)) =>
        Top.entry_sets = FreshEntrySets(prog, Top.id, Top.init)

\* C12 witness: a nested run that took a summary from the cache has converged
\* with taint in the entry set of a block other than the first.
C12_Witness ==
    /\ last.op = "seek"
    /\ NonRecursive(prog, Top.id)
    /\ CalleesOf(BodyOf(Top.id)) # {}
    /\ Cardinality(DOMAIN contexts) >= 3
    /\ \E b \in 2 .. Len(Top.entry_sets) : Top.entry_sets[b] # {}

\* ------------------------------------------------------------------ diagnostics
\* The step just taken evaluated a sink call with a tainted place argument.
SinkViolated ==
    /\ WasCallOf("Sink")
    /\ t_visit_sink(last.pre, last.term.args)

\* C13: a diagnostic does not stop the analysis.  Every evaluation of a sink
\* call with a tainted argument adds its diagnostic to those emitted before,
\* however many there are; once a diagnostic is out, the run it came from and
\* the enclosing runs still complete and the driver is reached; and the
\* driver ends in failure exactly when a diagnostic was emitted.
C13_DiagnosticsDoNotStop ==
    /\ [][SinkViolated' =>
            /\ Len(diags') = Len(diags) + 1
            /\ SubSeq(diags', 1, Len(diags)) = diags
            /\ diags'[Len(diags')].name = last'.term.func.id]_vars
    /\ [](diags # <<>> => <>Exited)
    /\ [](Exited => (Failed <=> diags # <<>>))

\* C13 witness: the driver ended in failure after a nested run emitted a
\* diagnostic, returned, and the root emitted another one.
C13_Witness ==
    /\ Failed
    /\ Len(diags) >= 2
    /\ diags[1].span.fn # prog.root
    /\ diags[Len(diags)].span.fn = prog.root

\* ------------------------------------------------------------------ recursion guard
\* The top analysis is about to evaluate a call of an unclassified function;
\* CallKey is the key t_function_summary builds for it.
AtCall ==
    /\ Top.bb # 0
    /\ Top.idx = Len(CurBlock(Top).statements) + 1
    /\ IsUnclassifiedCall(CurBlock(Top).terminator)
CallKey ==
    Key(CurBlock(Top).terminator.func.id,
        InitOfArgs(DomOf(Top), CurBlock(Top).terminator.args))

\* C14: a call whose key is in the cache with no summary (in progress)
\* leaves the caller's taint state and alias map as they were and starts
\* nothing; a nested run starts exactly for a key that is absent, None being
\* in the cache under that key when the run starts; the entries of the other
\* keys stay, and a summary once stored is never replaced.
C14_InProgressLeavesCallerUnchanged ==
    [][/\ (AtCall /\ CallKey \in DOMAIN contexts /\ ~contexts[CallKey].some) =>
            /\ Len(stack') = Len(stack)
            /\ DomOf(Top)' = DomOf(Top)
            /\ contexts' = contexts
            /\ diags' = diags
       /\ (Len(stack') > Len(stack)) <=> (AtCall /\ CallKey \notin DOMAIN contexts)
       /\ (Len(stack') > Len(stack)) =>
            /\ Key(Top.id, Top.init)' = CallKey
            /\ Top' = new_with_init(BodyOf(CallKey[1]), CallKey[1], CallKey[2])
            /\ DOMAIN contexts' = DOMAIN contexts \cup {CallKey}
            /\ ~contexts'[CallKey].some
       /\ \A k \in DOMAIN contexts :
            /\ k \in DOMAIN contexts'
            /\ contexts[k].some => contexts'[k] = contexts[k]]_vars

\* C14 witness: a call with a tainted variable among its arguments found its
\* key in progress and returned without a summary.
C14_Witness ==
    /\ last.op = "call_cached"
    /\ ~last.end_state.some
    /\ \E i \in 1 .. Len(last.term.args) :
          IsPlace(last.term.args[i]) /\ last.term.args[i].local \in last.pre.state
    /\ DomOf(Top) = last.pre

\* ------------------------------------------------------------------ cache size
RECURSIVE Pow(_, _)
Pow(b, e) == IF e = 0 THEN 1 ELSE b * Pow(b, e - 1)

NumFunctions(p) == Cardinality(DOMAIN p.fns)
MaxArity(p) ==
    CHOOSE n \in {p.fns[h].arg_count : h \in DOMAIN p.fns} :
        \A h \in DOMAIN p.fns : p.fns[h].arg_count <= n

\* C15 as stated: the cache never holds more than
\* (number of functions) * 2^(max arity) entries.
C15_AtMostFunctionsTimesTwoToArity ==
    Cardinality(DOMAIN contexts) <= NumFunctions(prog) * Pow(2, MaxArity(prog))

\* C15 amended: the init of a nested run has one entry per argument of the
\* call that started it, tainted or untainted for a variable as the caller
\* had it and unknown for a literal; every key is a function of the program
\* with such a vector, and the cache never holds more than
\* (number of functions) * 3^(max arity) entries.
C15_AtMostFunctionsTimesThreeToArity ==
    /\ Cardinality(DOMAIN contexts) <= NumFunctions(prog) * Pow(3, MaxArity(prog))
    /\ \A key \in DOMAIN contexts :
          /\ key[1] \in DOMAIN prog.fns
          /\ Len(key[2]) = BodyOf(key[1]).arg_count
          /\ \A i \in 1 .. Len(key[2]) : key[2][i] \in {SomeTrue, SomeFalse, None}
    /\ last.op = "call_enter" =>
          /\ Len(Top.init) = Len(last.term.args)
          /\ \A i \in 1 .. Len(last.term.args) :
                Top.init[i] =
                    CASE last.term.args[i].k = "Constant" -> None
                      [] last.term.args[i].local \in last.pre.state -> SomeTrue
                      [] OTHER -> SomeFalse

\* C15 witness: one function of one parameter has three entries in the
\* cache, one for each of tainted, untainted and unknown.
C15_Witness ==
    /\ NumFunctions(prog) = 1
    /\ MaxArity(prog) = 1
    /\ DOMAIN contexts = {Key(prog.root, <<v>>) : v \in {SomeTrue, SomeFalse, None}}

\* ------------------------------------------------------------------ convergence
\* The blocks the engine visits, and those among them that lead to b.
Reachable(body) == {b \in 1 .. Len(body.blocks) : InSeq(b, reverse_postorder(body))}
Predecessors(body, b) ==
    {p \in Reachable(body) : InSeq(b, body.blocks[p].terminator.targets)}

\* The state at the end of block bb as a results cursor over the run fr
\* gives it: the block's effects applied to its entry set.
BlockExit(fr, bb) ==
    LET blk == BodyOf(fr.id).blocks[bb]
        term == blk.terminator
        d == FreshStatements(Dom(fr.entry_sets[bb], fr.points), blk.statements, 1)
    IN  IF IsUnclassifiedCall(term)
        THEN t_fn_call_analysis(
                d, term.args, BodyOf(term.func.id), term.destination,
                t_get_cached_summary(
                    contexts, Key(term.func.id, InitOfArgs(d, term.args))).val).state
        ELSE visit_terminator(d, term).state

\* Every block of the converged run on top of the stack that has
\* predecessors enters with the union of their final exit states, and every
\* block's final exit state is its effects applied to its entry state.
ConvergedTop ==
    \A b \in Reachable(BodyOf(Top.id)) :
        /\ Predecessors(BodyOf(Top.id), b) # {} =>
              Top.entry_sets[b] =
                  UNION {Top.exit_sets[p] : p \in Predecessors(BodyOf(Top.id), b)}
        /\ Top.exit_sets[b] = BlockExit(Top, b)

\* No function that id reaches, id included, takes a reference or can reach
\* a call of itself.
TakesReference(body) ==
    \E b \in 1 .. Len(body.blocks) : \E i \in 1 .. Len(body.blocks[b].statements) :
        /\ body.blocks[b].statements[i].k = "Assign"
        /\ body.blocks[b].statements[i].rvalue.k = "Ref"
PlainRun(p, id) ==
    /\ NonRecursive(p, id)
    /\ \A h \in {id} \cup CalledFrom(p, id) : ~TakesReference(p.fns[h])

\* Entry sets change only by growing, and what is added to the entry set of
\* a block is the state at the end of the block just finished.
EntrySetsGrowByJoin ==
    \A i \in 1 .. Len(stack) :
        i <= Len(stack') =>
            \A b \in 1 .. Len(stack[i].entry_sets) :
                /\ stack[i].entry_sets[b] \subseteq stack'[i].entry_sets[b]
                /\ stack'[i].entry_sets[b] \subseteq
                      stack[i].entry_sets[b] \cup stack'[i].state

\* C16 as stated, for every converged run.
C16_ConvergedEntriesAreUnionOfExits == JustConverged => ConvergedTop

\* C16 amended: the relations hold at convergence for a run over a body that
\* reaches no reference-taking and no recursion; in every run the entry
\* sets change only by growing through joins.
C16_PlainConvergedEntriesAreUnionOfExits ==
    /\ []((JustConverged /\ PlainRun(prog, Top.id)) => ConvergedTop)
    /\ [][EntrySetsGrowByJoin]_vars

\* C16 witness: a run has converged over a plain body in which a block has
\* two predecessors with different final exit states, or a block was
\* processed again after its entry set grew.
C16_Witness ==
    /\ JustConverged
    /\ PlainRun(prog, Top.id)
    /\ \E b \in Reachable(BodyOf(Top.id)) :
          \E p, q \in Predecessors(BodyOf(Top.id), b) :
              /\ Top.exit_sets[p] # Top.exit_sets[q]
              /\ Top.entry_sets[b] = Top.exit_sets[p] \cup Top.exit_sets[q]

\* ------------------------------------------------------------------ entry state
\* The formals of the run fr whose init entry is Some(true).
TaintedFormals(fr) ==
    {l \in Locals : l \in 1 .. BodyOf(fr.id).arg_count
                    /\ l <= Len(fr.init)
                    /\ fr.init[l] = SomeTrue}

\* C17: a run starts its entry block with exactly the formals tainted whose
\* init entry is Some(true): formals with Some(false) or None, the return
\* place and the other locals are untainted, and every other block starts
\* at bottom; the root, whose init is empty, starts with nothing tainted.
\* The entry block is entered from nowhere else, so its entry set stays so.
C17_EntryStateFromInit ==
    /\ last.op \in {"init", "call_enter"} =>
          /\ Top.entry_sets[START_BLOCK] = TaintedFormals(Top)
          /\ \A b \in 1 .. Len(Top.entry_sets) :
                b # START_BLOCK => Top.entry_sets[b] = {}
          /\ Top.points = EmptyPoints
    /\ stack[1].init = <<>>
    /\ \A i \in 1 .. Len(stack) :
          /\ stack[i].entry_sets[START_BLOCK] = TaintedFormals(stack[i])
          /\ (stack[i].bb = START_BLOCK /\ stack[i].idx = 1) =>
                stack[i].state = TaintedFormals(stack[i])
    /\ stack[1].entry_sets[START_BLOCK] = {}

\* C17 witness: a nested run whose init has a tainted, an untainted or
\* unknown entry is at the start of its entry block with only the first of
\* them tainted.
C17_Witness ==
    /\ Len(stack) > 1
    /\ Top.bb = START_BLOCK
    /\ Top.idx = 1
    /\ Top.mode = "fixpoint"
    /\ \E i, j \in 1 .. Len(Top.init) :
          /\ Top.init[i] = SomeTrue
          /\ Top.init[j] = None
          /\ Top.state = {i}

\* ------------------------------------------------------------------ references
\* The step just taken was the assignment dst = &src.
WasRef == WasAssign /\ last.statement.rvalue.k = "Ref"

\* The step just taken wrote a taint to one variable: an assignment of a
\* modelled shape other than a reference, or a source or sanitizer call.
WasTaintWrite ==
    \/ /\ WasAssign
       /\ last.statement.rvalue.k \in {"Use", "UnaryOp", "BinaryOp", "CheckedBinaryOp"}
    \/ WasCallOf("Source")
    \/ WasCallOf("Sanitizer")
WrittenLocal ==
    IF last.op = "statement" THEN last.statement.place ELSE last.term.destination

\* l can be reached from v through one or more edges of map.
RECURSIVE ReachedIn(_, _, _, _)
ReachedIn(map, v, l, n) ==
    IF n = 0 THEN FALSE
    ELSE \/ l \in map[v]
         \/ \E w \in map[v] : ReachedIn(map, w, l, n - 1)

\* Alias edges of an analysis are only added, and only by a reference-take
\* of that analysis; the analyses below the top keep theirs untouched.
EdgesOnlyGrow ==
    \A i \in 1 .. Len(stack) :
        i <= Len(stack') =>
            /\ \A l \in Locals : stack[i].points[l] \subseteq stack'[i].points[l]
            /\ stack'[i].points # stack[i].points =>
                  /\ i = Len(stack)
                  /\ Len(stack') = Len(stack)
                  /\ WasRef'

\* C18: dst = &src changes no taint and adds the edge dst -> src; a later
\* write of a taint to dst gives the same taint to everything that dst
\* reaches through the edges; edges are never removed while the analysis
\* lasts; a nested analysis starts without edges and neither it nor its
\* caller sees the other's.
C18_AliasEdges ==
    /\ [](WasRef =>
            /\ Top.state = last.pre.state
            /\ Top.points = [l \in Locals |->
                                IF l = last.statement.place
                                THEN last.pre.map[l] \cup {last.statement.rvalue.a.local}
                                ELSE last.pre.map[l]])
    /\ [](WasTaintWrite =>
            /\ Top.points = last.pre.map
            /\ \A l \in Locals :
                  IF ReachedIn(last.pre.map, WrittenLocal, l, NumLocals)
                  THEN (l \in Top.state) = (WrittenLocal \in Top.state)
                  ELSE l # WrittenLocal => ((l \in Top.state) = (l \in last.pre.state)))
    /\ [](last.op = "call_enter" => Top.points = EmptyPoints)
    /\ [][EdgesOnlyGrow]_vars

\* C18 witness: a source call wrote to a variable that refers to a second
\* one, which refers to a third, and all three are tainted; before, none was.
C18_Witness ==
    /\ WasCallOf("Source")
    /\ last.pre.state = {}
    /\ \E a, b \in Locals \ {WrittenLocal} :
          /\ a # b
          /\ a \in last.pre.map[WrittenLocal]
          /\ b \in last.pre.map[a]
          /\ {WrittenLocal, a, b} \subseteq Top.state

\* ------------------------------------------------------------------ no-ops
\* The step just taken was a terminator other than a call, a sink call, or an
\* assignment of an unmodeled shape.
WasNoOp ==
    \/ /\ last.op = "terminator"
       /\ last.term.k \in {"Goto", "SwitchInt", "Return", "Assert", "Unreachable"}
    \/ WasCallOf("Sink")
    \/ /\ WasAssign
       /\ last.statement.rvalue.k \in UnmodeledRvalues

\* C19: a terminator that is not a call, a sink call, and an assignment
\* whose right-hand side is of an unmodeled shape leave every variable's
\* taint, the assigned one included, and the alias map as they were.
C19_NoOpsChangeNothing ==
    WasNoOp => (Top.state = last.pre.state /\ Top.points = last.pre.map)

\* C19 witness: a cast was assigned to a tainted variable that refers to
\* another one, and the variable is still tainted.
C19_Witness ==
    /\ WasAssign
    /\ last.statement.rvalue.k = "Cast"
    /\ TaintedBefore(last.statement.place)
    /\ last.pre.map[last.statement.place] # {}
    /\ TaintedAfter(last.statement.place)

\* ------------------------------------------------------------------ cache entries
\* The keys entered with None, and the keys of the nested analyses in
\* progress (the root has no key).
InProgressKeys == {k \in DOMAIN contexts : ~contexts[k].some}
NestedKeys == {Key(stack[i].id, stack[i].init) : i \in 2 .. Len(stack)}

\* An entry goes from absent to None to a summary and never back.
EntriesMoveForward ==
    /\ DOMAIN contexts \subseteq DOMAIN contexts'
    /\ \A k \in DOMAIN contexts' \ DOMAIN contexts : ~contexts'[k].some
    /\ \A k \in DOMAIN contexts : contexts[k].some => contexts'[k] = contexts[k]

\* C20: the keys whose entry is None are exactly the keys of the nested
\* analyses on the stack, no two of which have the same key, and every
\* other key present holds a summary; entries only move from absent to None
\* to a summary; once the top-level run is over no entry is None.
C20_InProgressIsTheStack ==
    /\ [](/\ InProgressKeys = NestedKeys
          /\ Cardinality(NestedKeys) = Len(stack) - 1
          /\ \A k \in DOMAIN contexts \ NestedKeys : contexts[k].some)
    /\ [][EntriesMoveForward]_vars
    /\ []((Finished \/ Exited) => InProgressKeys = {})

\* C20 witness: two nested analyses are in progress, their two keys hold
\* None, and a third key holds a summary.
C20_Witness ==
    /\ Len(stack) = 3
    /\ Cardinality(InProgressKeys) = 2
    /\ \E k \in DOMAIN contexts : contexts[k].some

====
